---- MODULE Spec2Model ----
(***************************************************************************)
(* The darts CRUD service: the six handlers of src/api/darts.py over the   *)
(* darts table of src/models/darts.py.                                     *)
(*                                                                         *)
(* Every request runs in its own SQLAlchemy session, released when the     *)
(* request is answered; sess holds the requests in flight and last the     *)
(* response the last step sent.  A handler is cut where it talks to        *)
(* the store or reads the clock: the query, the clock reads, db.commit()   *)
(* (flush of the pending statement + COMMIT, one atomic step against the   *)
(* committed table: READ COMMITTED with row locks serialises the           *)
(* statements of concurrent commits) and db.refresh().  Any store call may *)
(* raise (the "fail" choice), which the handlers turn into rollback + 500. *)
(* The wall clock never goes back.                                         *)
(* deleted, started and the wrote / raised fields are history variables:   *)
(* the ids whose DELETE was answered 200, the number of requests begun,    *)
(* whether the request's commit changed the table and whether a store call *)
(* raised.                                                                 *)
(***************************************************************************)
EXTENDS Integers, Sequences, FiniteSets, TLC

VARIABLES table, nextId, now, sess, last, deleted, started

vars == <<table, nextId, now, sess, last, deleted, started>>

\* ---------------------------------------------------------------- bounds
MaxId == 2
MaxClock == 1
MaxRequests == 3
PageMaxRecords == 15

Sessions == {"s1", "s2"}

\* ------------------------------------------------------------ data model
NULL == -1

InputFields == {"username", "game", "game_type", "throws", "score", "max_score"}

RequiredFields == {"username", "game", "game_type"}

Columns == InputFields \cup {"id", "create_date", "update_date"}

\* A transient darts() instance before any attribute is set; also the result
\* of .first() when no row matches (None).
NoRow ==
    [id |-> NULL, username |-> "", game |-> "", game_type |-> "",
     throws |-> NULL, score |-> NULL, max_score |-> NULL,
     create_date |-> NULL, update_date |-> NULL]

\* A request body: the keys the client sent, and the value of every field
\* of the schema (an unsent optional field holds its default, None).
MkBody(keys, u, t, sc, m) ==
    [keys |-> keys,
     vals |-> [username |-> u, game |-> u, game_type |-> u,
               throws |-> t, score |-> sc, max_score |-> m]]

EmptyBody == MkBody({}, "", NULL, NULL, NULL)

ReqBody == MkBody(RequiredFields, "a", NULL, NULL, NULL)

FullBody == MkBody(InputFields, "b", 1, 1, 1)

PartBody == MkBody(RequiredFields \cup {"throws"}, "a", 2, NULL, NULL)

NullBody == MkBody(RequiredFields \cup {"score"}, "b", NULL, NULL, NULL)

Bodies == {EmptyBody, ReqBody, FullBody}

SeqBodies == Bodies \cup {PartBody, NullBody}

\* dartsCreate validation: the three str fields are required.
Valid(b) == RequiredFields \subseteq b.keys

\* BaseModel.model_dump(exclude_unset=...): the dict of the fields that were
\* set, or of every field with defaults filled in.
model_dump(b, exclude_unset) ==
    [keys |-> IF exclude_unset THEN b.keys ELSE InputFields, vals |-> b.vals]

CreateData(b) == model_dump(b, TRUE)

PutDataMerge(b) == model_dump(b, TRUE)

PutData(b) == model_dump(b, FALSE)

PatchDataReplace(b) == model_dump(b, FALSE)

PatchData(b) == model_dump(b, TRUE)

\* for key, value in data.items(): setattr(record, key, value)
SetAttrs(rec, data) ==
    [c \in Columns |-> IF c \in data.keys THEN data.vals[c] ELSE rec[c]]

\* new_record.create_date = datetime.now(UTC)
StampCreateOmitted(rec, clock) == rec

StampCreate(rec, clock) == [rec EXCEPT !.create_date = clock]

\* new_record.update_date = datetime.now(UTC)
StampNew(rec, clock) == [rec EXCEPT !.update_date = clock]

\* record.update_date = datetime.now(UTC)   (PUT and PATCH)
StampUpdateBoth(rec, clock) ==
    [rec EXCEPT !.update_date = clock, !.create_date = clock]

StampUpdate(rec, clock) == [rec EXCEPT !.update_date = clock]

\* ----------------------------------------------------------------- store
Ids(t) == {t[k].id : k \in DOMAIN t}

\* db.query(darts).filter(darts.id == id).first()
Find(t, i) ==
    IF i \in Ids(t) THEN t[CHOOSE k \in DOMAIN t : t[k].id = i] ELSE NoRow

\* The id the store assigns to an inserted row (autoincrement primary key).
NewId(n) == n

\* INSERT: column defaults fill create_date / update_date when unset.
FlushInsert(t, rec, newid, clock) ==
    Append(t, [rec EXCEPT
                 !.id = newid,
                 !.create_date = IF @ = NULL THEN clock ELSE @,
                 !.update_date = IF @ = NULL THEN clock ELSE @])

\* The unit of work writes only the attributes whose value differs from the
\* value the session loaded.
Changed(loaded, rec) == {c \in Columns : rec[c] # loaded[c]}

\* UPDATE darts SET <changed columns> WHERE id = loaded.id.  No changed
\* column: no statement.  Zero rows matched: StaleDataError (ok = FALSE).
\* update_date's onupdate fires when the statement does not set it.
FlushUpdateUpsert(t, loaded, rec, clock) ==
    IF loaded.id \in Ids(t)
    THEN [ok |-> TRUE,
          table |-> [k \in DOMAIN t |->
                       IF t[k].id = loaded.id
                       THEN [c \in Columns |->
                               IF c \in Changed(loaded, rec) THEN rec[c] ELSE t[k][c]]
                       ELSE t[k]]]
    ELSE [ok |-> TRUE, table |-> Append(t, rec)]

FlushUpdate(t, loaded, rec, clock) ==
    LET params == Changed(loaded, rec) IN
    IF params = {} THEN [ok |-> TRUE, table |-> t]
    ELSE IF loaded.id \notin Ids(t) THEN [ok |-> FALSE, table |-> t]
    ELSE [ok |-> TRUE,
          table |-> [k \in DOMAIN t |->
                       IF t[k].id = loaded.id
                       THEN [c \in Columns |->
                               IF c \in params THEN rec[c]
                               ELSE IF c = "update_date" THEN clock
                               ELSE t[k][c]]
                       ELSE t[k]]]

\* DELETE FROM darts WHERE id = i.  Zero rows matched is only a warning.
FlushDeleteSoft(t, i) == t

FlushDelete(t, i) == SelectSeq(t, LAMBDA r : r.id # i)

\* offset = (page - 1) * limit
OffsetFromPage(page, limit) == page * limit

Offset(page, limit) == (page - 1) * limit

\* db.query(darts).offset(offset).limit(limit).all()
Page(t, page, limit) ==
    LET off == Offset(page, limit)
        stop == IF off + limit < Len(t) THEN off + limit ELSE Len(t)
    IN  IF off >= Len(t) THEN <<>> ELSE SubSeq(t, off + 1, stop)

\* -------------------------------------------------------------- sessions
\* A session no request uses.
Idle ==
    [pc |-> "idle", op |-> "NONE", id |-> 0, body |-> EmptyBody,
     loaded |-> NoRow, rec |-> NoRow, wrote |-> FALSE]

Free(s) == sess[s].pc = "idle"

\* A request is served by the first session that is not in use.
Acquire(s) == Free(s) /\ (s = "s1" \/ ~Free("s1"))

Request(o, i, b) == [Idle EXCEPT !.op = o, !.id = i, !.body = b]

\* The response to request r: the status and the serialized record.
Reply(r, status, row) ==
    [op |-> r.op, id |-> r.id, body |-> r.body, resp |-> status, out |-> row,
     rows |-> <<>>, page |-> 0, limit |-> 0, wrote |-> r.wrote, raised |-> FALSE]

\* except Exception: db.rollback(); raise HTTPException(status_code=500)
ServerError(r, storeRaised) ==
    [Reply(r, 500, NoRow) EXCEPT !.raised = storeRaised]

\* The request of session s is answered and the session released.
Respond(s, reply) ==
    /\ sess' = [sess EXCEPT ![s] = Idle]
    /\ last' = reply

\* No response is sent in this step.
NoReply == Reply(Idle, 0, NoRow)

\* The request of session s goes on as r.
Continue(s, r) ==
    /\ sess' = [sess EXCEPT ![s] = r]
    /\ last' = NoReply

Init ==
    /\ table = <<>>
    /\ nextId = 1
    /\ now = 0
    /\ sess = [s \in Sessions |-> Idle]
    /\ last = NoReply
    /\ deleted = {}
    /\ started = 0

\* datetime.now(UTC) advances.
Tick ==
    /\ now < MaxClock
    /\ now' = now + 1
    /\ last' = NoReply
    /\ UNCHANGED <<table, nextId, sess, deleted, started>>

\* POST /api/v1/darts: validation, model_dump, darts(**data), first clock read.
CreateBegin(s, b) ==
    /\ Acquire(s)
    /\ started' = started + 1
    /\ IF ~Valid(b)
       THEN Respond(s, Reply(Request("POST", 0, b), 422, NoRow))
       ELSE Continue(s, [Request("POST", 0, b) EXCEPT
                           !.pc = "c1",
                           !.rec = StampCreate(SetAttrs(NoRow, CreateData(b)), now)])
    /\ UNCHANGED <<table, nextId, now, deleted>>

\* second clock read, db.add
CreateStamp(s) ==
    /\ sess[s].pc = "c1"
    /\ Continue(s, [sess[s] EXCEPT !.pc = "c2", !.rec = StampNew(@, now)])
    /\ UNCHANGED <<table, nextId, now, deleted, started>>

\* db.commit() of the INSERT; a failure is rolled back and answered 500.
CreateCommit(s) ==
    /\ sess[s].pc = "c2"
    /\ \E fail \in BOOLEAN :
         IF fail
         THEN /\ Respond(s, ServerError(sess[s], TRUE))
              /\ UNCHANGED <<table, nextId>>
         ELSE /\ table' = FlushInsert(table, sess[s].rec, NewId(nextId), now)
              /\ nextId' = nextId + 1
              /\ Continue(s, [sess[s] EXCEPT !.pc = "committed",
                                             !.id = NewId(nextId),
                                             !.wrote = TRUE])
    /\ UNCHANGED <<now, deleted, started>>

\* db.refresh(record) and the serialized response (POST, PUT, PATCH).
Refresh(s) ==
    /\ sess[s].pc = "committed"
    /\ \E fail \in BOOLEAN :
         LET row == Find(table, sess[s].id) IN
         Respond(s, IF fail THEN ServerError(sess[s], TRUE)
                    ELSE IF row = NoRow THEN ServerError(sess[s], FALSE)
                    ELSE Reply(sess[s], 200, row))
    /\ UNCHANGED <<table, nextId, now, deleted, started>>

\* PUT / PATCH /api/v1/darts/{id}: validation and the lookup.
UpdateBegin(s, o, i, b) ==
    /\ Acquire(s)
    /\ o \in {"PUT", "PATCH"}
    /\ started' = started + 1
    /\ \E fail \in BOOLEAN :
         LET row == Find(table, i)
             req == Request(o, i, b)
         IN  IF ~Valid(b) THEN Respond(s, Reply(req, 422, NoRow))
             ELSE IF fail THEN Respond(s, ServerError(req, TRUE))
             ELSE IF row = NoRow THEN Respond(s, Reply(req, 404, NoRow))
             ELSE Continue(s, [req EXCEPT !.pc = "queried", !.loaded = row])
    /\ UNCHANGED <<table, nextId, now, deleted>>

\* model_dump, the setattr loop and the clock read.
UpdateApply(s) ==
    /\ sess[s].pc = "queried"
    /\ LET r == sess[s]
           data == IF r.op = "PUT" THEN PutData(r.body) ELSE PatchData(r.body)
       IN  Continue(s, [r EXCEPT !.pc = "stamped",
                                 !.rec = StampUpdate(SetAttrs(r.loaded, data), now)])
    /\ UNCHANGED <<table, nextId, now, deleted, started>>

\* db.commit() of the UPDATE.
UpdateCommit(s) ==
    /\ sess[s].pc = "stamped"
    /\ \E fail \in BOOLEAN :
         LET r == sess[s]
             f == FlushUpdate(table, r.loaded, r.rec, now)
         IN  IF fail \/ ~f.ok
             THEN /\ Respond(s, ServerError(r, fail))
                  /\ UNCHANGED table
             ELSE /\ table' = f.table
                  /\ Continue(s, [r EXCEPT !.pc = "committed",
                                           !.wrote = (f.table # table)])
    /\ UNCHANGED <<nextId, now, deleted, started>>

\* DELETE /api/v1/darts/{id}: the lookup.
DeleteBegin(s, i) ==
    /\ Acquire(s)
    /\ started' = started + 1
    /\ \E fail \in BOOLEAN :
         LET row == Find(table, i)
             req == Request("DELETE", i, EmptyBody)
         IN  IF fail THEN Respond(s, ServerError(req, TRUE))
             ELSE IF row = NoRow THEN Respond(s, Reply(req, 404, NoRow))
             ELSE Continue(s, [req EXCEPT !.pc = "dqueried", !.loaded = row])
    /\ UNCHANGED <<table, nextId, now, deleted>>

\* db.delete(record); db.commit(); the confirmation message.
DeleteCommit(s) ==
    /\ sess[s].pc = "dqueried"
    /\ \E fail \in BOOLEAN :
         IF fail
         THEN /\ Respond(s, ServerError(sess[s], TRUE))
              /\ UNCHANGED <<table, deleted>>
         ELSE /\ table' = FlushDelete(table, sess[s].id)
              /\ deleted' = deleted \cup {sess[s].id}
              /\ Respond(s, Reply([sess[s] EXCEPT
                                     !.wrote = (sess[s].id \in Ids(table))],
                                  200, NoRow))
    /\ UNCHANGED <<nextId, now, started>>

\* GET /api/v1/darts/{id}
GetDarts(s, i) ==
    /\ Acquire(s)
    /\ started' = started + 1
    /\ \E fail \in BOOLEAN :
         LET row == Find(table, i)
             req == Request("GET", i, EmptyBody)
         IN  Respond(s, IF fail THEN ServerError(req, TRUE)
                        ELSE IF row = NoRow THEN Reply(req, 404, NoRow)
                        ELSE Reply(req, 200, row))
    /\ UNCHANGED <<table, nextId, now, deleted>>

\* GET /api/v1/darts?page&limit
ListDarts(s, page, limit) ==
    /\ Acquire(s)
    /\ started' = started + 1
    /\ \E fail \in BOOLEAN :
         LET req == Request("LIST", 0, EmptyBody)
             paged(r) == [r EXCEPT !.page = page, !.limit = limit]
         IN  Respond(s, IF page < 1 \/ limit < 1 \/ limit > 1000
                        THEN paged(Reply(req, 422, NoRow))
                        ELSE IF fail THEN paged(ServerError(req, TRUE))
                        ELSE [paged(Reply(req, 200, NoRow)) EXCEPT
                                !.rows = Page(table, page, limit)])
    /\ UNCHANGED <<table, nextId, now, deleted>>

\* ------------------------------------------------------- specifications
\* Concurrent requests, each in its own session.
Next ==
    \/ Tick
    \/ \E s \in Sessions, b \in Bodies :
         started < MaxRequests /\ nextId <= MaxId /\ CreateBegin(s, b)
    \/ \E s \in Sessions : CreateStamp(s)
    \/ \E s \in Sessions : CreateCommit(s)
    \/ \E s \in Sessions : Refresh(s)
    \/ \E s \in Sessions, o \in {"PUT", "PATCH"}, i \in 1..MaxId, b \in Bodies :
         started < MaxRequests /\ UpdateBegin(s, o, i, b)
    \/ \E s \in Sessions : UpdateApply(s)
    \/ \E s \in Sessions : UpdateCommit(s)
    \/ \E s \in Sessions, i \in 1..MaxId :
         started < MaxRequests /\ DeleteBegin(s, i)
    \/ \E s \in Sessions : DeleteCommit(s)
    \/ \E s \in Sessions, i \in 1..MaxId :
         started < MaxRequests /\ GetDarts(s, i)

Spec == Init /\ [][Next]_vars

\* One client: every request is answered before the next one is sent.
SeqNext ==
    \/ Tick
    \/ \E b \in SeqBodies :
         started < MaxRequests /\ nextId <= MaxId /\ CreateBegin("s1", b)
    \/ CreateStamp("s1")
    \/ CreateCommit("s1")
    \/ Refresh("s1")
    \/ \E o \in {"PUT", "PATCH"}, i \in 1..MaxId, b \in SeqBodies :
         started < MaxRequests /\ UpdateBegin("s1", o, i, b)
    \/ UpdateApply("s1")
    \/ UpdateCommit("s1")
    \/ \E i \in 1..MaxId : started < MaxRequests /\ DeleteBegin("s1", i)
    \/ DeleteCommit("s1")
    \/ \E i \in 1..MaxId : started < MaxRequests /\ GetDarts("s1", i)

SeqSpec == Init /\ [][SeqNext]_vars

\* Inserts and listings only: the table is filled and paged through.
PageLimits == {0, 5, 10, 1001}

PageNext ==
    \/ \E s \in Sessions :
         started < PageMaxRecords + 2 /\ nextId <= PageMaxRecords
           /\ CreateBegin(s, FullBody)
    \/ \E s \in Sessions : CreateStamp(s)
    \/ \E s \in Sessions : CreateCommit(s)
    \/ \E s \in Sessions : Refresh(s)
    \/ \E s \in Sessions, page \in 0..3, limit \in PageLimits :
         started < PageMaxRecords + 2 /\ ListDarts(s, page, limit)

PageSpec == Init /\ [][PageNext]_vars

\* ----------------------------------------------------------------- claims
Updates == {"PUT", "PATCH"}

Mutating == {"POST", "PUT", "PATCH", "DELETE"}

\* The step answers a request in the step that begins it (a rejected payload,
\* a lookup that raises or finds no row, a GET, a listing).
AnsweredAtOnce == sess' = sess /\ last'.resp # 0

\* Session s commits its UPDATE (db.commit() returns).
CommitsUpdate(s) ==
    /\ sess[s].op \in Updates
    /\ sess[s].pc = "stamped"
    /\ sess'[s].pc = "committed"

\* Session s is answered after db.refresh(): the response of a POST, PUT or
\* PATCH whose commit went through.
AnswersCommitted(s) == sess[s].pc = "committed" /\ sess'[s].pc = "idle"

\* C1: a PATCH of an existing id with an empty payload succeeds; in
\* particular the request is not rejected for its payload.
EmptyPatchAccepted ==
    (/\ last.op = "PATCH"
     /\ last.body.keys = {}
     /\ last.id \in Ids(table))
    => last.resp # 422

\* C2: a successful PATCH returns and stores a record whose every column
\* named in the payload holds the payload's value and whose every other
\* column, update_date apart, holds the value it had before the request.
PatchAppliesOnlyNamedFields ==
    [][\A s \in Sessions :
         (/\ sess[s].op = "PATCH"
          /\ AnswersCommitted(s)
          /\ last'.resp = 200)
         => /\ \A c \in Columns \ {"update_date"} :
                 last'.out[c] = IF c \in sess[s].body.keys
                                THEN sess[s].body.vals[c]
                                ELSE sess[s].loaded[c]
            /\ Find(table', sess[s].id) = last'.out]_vars

\* A PATCH that names username but not throws has been committed on a record
\* with a throws value: the name is replaced, throws is kept.
PatchKeepsOmittedWitness ==
    \E s \in Sessions :
      /\ sess[s].op = "PATCH"
      /\ sess[s].pc = "committed"
      /\ "throws" \notin sess[s].body.keys
      /\ sess[s].loaded.throws # NULL
      /\ sess[s].loaded.username # sess[s].body.vals.username
      /\ Find(table, sess[s].id).throws = sess[s].loaded.throws
      /\ Find(table, sess[s].id).username = sess[s].body.vals.username

\* C3: a successful PUT whose payload has only username, game and game_type
\* returns and stores a record with throws, score and max_score null and the
\* three required fields set to the payload's values.
PutResetsOptionalFields ==
    [][\A s \in Sessions :
         (/\ sess[s].op = "PUT"
          /\ sess[s].body.keys = RequiredFields
          /\ AnswersCommitted(s)
          /\ last'.resp = 200)
         => /\ \A c \in InputFields \ RequiredFields : last'.out[c] = NULL
            /\ \A c \in RequiredFields : last'.out[c] = sess[s].body.vals[c]
            /\ Find(table', sess[s].id) = last'.out]_vars

\* A PUT with only the required fields has been committed on a record whose
\* optional fields all held a value: they are null in the table.
PutClearsWitness ==
    \E s \in Sessions :
      /\ sess[s].op = "PUT"
      /\ sess[s].pc = "committed"
      /\ sess[s].body.keys = RequiredFields
      /\ \A c \in InputFields \ RequiredFields : sess[s].loaded[c] # NULL
      /\ \A c \in InputFields \ RequiredFields : Find(table, sess[s].id)[c] = NULL

\* C4: an id whose DELETE succeeded has no row from then on, a GET of it is
\* answered 404 (500 if the store raises, never the record), and a DELETE
\* whose lookup finds no row is answered 404 (500 if the store raises) and
\* leaves the table as it was.
DeletedStaysGone ==
    /\ [](\A i \in deleted : i \notin Ids(table))
    /\ [][/\ (last'.op = "GET" /\ last'.id \in deleted)
             => /\ last'.resp = IF last'.raised THEN 500 ELSE 404
                /\ table' = table
          /\ (AnsweredAtOnce /\ last'.op = "DELETE" /\ last'.id \notin Ids(table))
             => /\ last'.resp = IF last'.raised THEN 500 ELSE 404
                /\ table' = table]_vars

\* A record was created and deleted, and a later GET of its id got 404.
GetAfterDeleteWitness ==
    /\ last.op = "GET"
    /\ last.resp = 404
    /\ last.id \in deleted

\* C5 (as claimed): the record a successful create returns has
\* create_date = update_date.
CreateDatesEqual ==
    (last.op = "POST" /\ last.resp = 200)
    => last.out.create_date = last.out.update_date

\* C5 (amended): the id a create inserts is above every id assigned before
\* it, so it belongs to no present record, to no deleted one and to no other
\* create, and the record a successful create returns carries that id and has
\* create_date <= update_date.
CreateFreshIdOrderedDates ==
    /\ [](/\ \A i \in Ids(table) \cup deleted : i < nextId
          /\ \A s \in Sessions :
               (sess[s].op = "POST" /\ sess[s].pc = "committed")
               => sess[s].id < nextId
          /\ (last.op = "POST" /\ last.resp = 200)
             => /\ last.out.id = last.id
                /\ last.out.id < nextId
                /\ last.out.create_date <= last.out.update_date)
    /\ [][\A s \in Sessions :
            (sess[s].pc = "c2" /\ sess'[s].pc = "committed")
            => /\ sess'[s].id >= nextId
               /\ sess'[s].id \notin Ids(table) \cup deleted
               /\ sess'[s].id \in Ids(table')
               /\ \A u \in Sessions \ {s} :
                    sess[u].op = "POST" /\ sess[u].pc = "committed"
                    => sess[u].id # sess'[s].id]_vars

\* A create issued after a delete returned a record with a new id whose
\* update_date is later than its create_date.
CreateAfterDeleteWitness ==
    /\ last.op = "POST"
    /\ last.resp = 200
    /\ deleted # {}
    /\ last.out.id \notin deleted
    /\ last.out.create_date < last.out.update_date

\* C6: every present record has create_date <= update_date, no step changes
\* the create_date of a record that stays present, and the commit of a PUT or
\* PATCH leaves the ids of the table as they were.
DatesOrderedIdFixed ==
    /\ [](\A k \in DOMAIN table : table[k].create_date <= table[k].update_date)
    /\ [][/\ \A i \in Ids(table) \cap Ids(table') :
               Find(table', i).create_date = Find(table, i).create_date
          /\ \A s \in Sessions :
               CommitsUpdate(s)
               => [k \in DOMAIN table' |-> table'[k].id]
                    = [k \in DOMAIN table |-> table[k].id]]_vars

\* An update has been committed and the record's update_date is later than
\* its create_date.
UpdatedLaterWitness ==
    \E s \in Sessions :
      /\ sess[s].op \in Updates
      /\ sess[s].pc = "committed"
      /\ sess[s].wrote
      /\ Find(table, sess[s].id).create_date < Find(table, sess[s].id).update_date
      /\ Find(table, sess[s].id).create_date = sess[s].loaded.create_date

ErrorLeavesStoreUntouched ==
    (last.op \in Mutating /\ last.resp \in {404, 500}) => ~last.wrote

\* C9: when the commit of an update writes the record, every field its
\* payload applies holds the payload's value in the stored record (the later
\* commit wins every field it applies).
LastWriterWins ==
    [][\A s \in Sessions :
         (CommitsUpdate(s) /\ sess'[s].wrote)
         => LET data == IF sess[s].op = "PUT" THEN PutData(sess[s].body)
                        ELSE PatchData(sess[s].body)
            IN  \A c \in data.keys :
                  Find(table', sess[s].id)[c] = data.vals[c]]_vars

\* C10: no step of a PUT or PATCH adds a row, an id whose DELETE succeeded
\* has no row, and a PUT or PATCH is answered 200 only while no DELETE of its
\* id has succeeded.
UpdateNeverResurrects ==
    /\ [](\A i \in deleted : Find(table, i) = NoRow)
    /\ [][\A s \in Sessions :
            (sess[s].op \in Updates /\ sess'[s] # sess[s])
            => /\ Ids(table') \subseteq Ids(table)
               /\ last'.resp = 200
                  => (sess[s].id \notin deleted /\ sess[s].id \in Ids(table'))]_vars

\* An update read the record, the DELETE of the id then succeeded, and the
\* update's commit matched no row: it was answered 500 and the id is absent.
StaleUpdateWitness ==
    /\ last.op \in Updates
    /\ last.resp = 500
    /\ ~last.raised
    /\ ~last.wrote
    /\ last.id \in deleted
    /\ last.id \notin Ids(table)

====
